---- MODULE Spec2Model ----
(***************************************************************************)
(* Model of lib/taurus/core/epics/epicsfactory.py: the EPICS name          *)
(* validators, the EpicsFactory registries and the EpicsAttribute proxy.   *)
(* Strings are sequences of one-character strings, so that the regular     *)
(* expression of the validators is matched character by character.         *)
(***************************************************************************)
EXTENDS Integers, Sequences, FiniteSets, TLC

VARIABLES nv, epics_devs, epics_attrs, epics_configs, objs, nextId, last,
          returned, jobs, polling_timers

vars == <<nv, epics_devs, epics_attrs, epics_configs, objs, nextId, last,
          returned, jobs, polling_timers>>

factoryVars == <<epics_devs, epics_attrs, epics_configs, objs, nextId, last,
                 returned, jobs, polling_timers>>

(* ------------------------------ bounds -------------------------------- *)

\* longest text after the "epics://" prefix of an enumerated input string
MaxBody == 5

\* number of objects the factory may allocate in one behaviour
MaxObjs == 5

(* ------------------------------ strings ------------------------------- *)

\* Python's None; no string is equal to it (its element is not a character)
None == <<"<None>">>

\* '%s' % x
Fmt(x) == IF x = None THEN <<"N", "o", "n", "e">> ELSE x

base_sep == <<":">>

Scheme == <<"e", "p", "i", "c", "s">>

SchemeSep == <<":", "/", "/">>

DEFAULT_DEVICE == <<"_", "D", "e", "f", "a", "u", "l", "t", "E", "p", "i", "c", "s", "D", "e", "v", "i", "c", "e">>

CfgSuffix == <<"?", "c", "o", "n", "f", "i", "g", "u", "r", "a", "t", "i", "o", "n">>

SetMax(S) == CHOOSE x \in S : \A y \in S : y <= x

\* [^?#]
DevChar(c) == c \notin {"?", "#"}

\* [^?#:]
AttrChar(c) == c \notin {"?", "#", base_sep[1]}

NoMatch == [ok |-> FALSE, scheme |-> None, epicsname |-> None, devname |-> None,
            base_sep |-> None, attrname |-> None]

\* the end of group 'devname' under a lazy quantifier: the first separator
DevEndFirst(r) ==
    LET ends == {k \in 1..(Len(r) - 1) :
                    /\ \A i \in 1..k : DevChar(r[i])
                    /\ r[k + 1] = base_sep[1]}
    IN IF ends = {} THEN 0 ELSE CHOOSE k \in ends : \A j \in ends : k <= j

\* the end of group 'devname': [^?#]+ is greedy and backtracks until it is
\* followed by the separator, so it ends before the last separator it can reach
DevEnd(r) ==
    LET ends == {k \in 1..(Len(r) - 1) :
                    /\ \A i \in 1..k : DevChar(r[i])
                    /\ r[k + 1] = base_sep[1]}
    IN IF ends = {} THEN 0 ELSE SetMax(ends)

\* the length of the run matched by [^?#:]+ from position p + 1 (0: no match)
AttrRun(r, p) ==
    SetMax({j \in 0..(Len(r) - p) : \A i \in (p + 1)..(p + j) : AttrChar(r[i])})

\* name_re.match(s): the pattern is anchored at the start only
Match(s) ==
    LET pre == Scheme \o SchemeSep
        r   == SubSeq(s, Len(pre) + 1, Len(s))
        k   == DevEnd(r)
        p   == IF k = 0 THEN 0 ELSE k + 1
        j   == AttrRun(r, p)
    IN IF Len(s) >= Len(pre) /\ SubSeq(s, 1, Len(pre)) = pre
       THEN [ok        |-> TRUE,
             scheme    |-> Scheme,
             epicsname |-> SubSeq(r, 1, p + j),
             devname   |-> IF k = 0 THEN None ELSE SubSeq(r, 1, k),
             base_sep  |-> IF k = 0 THEN None ELSE base_sep,
             attrname  |-> IF j = 0 THEN None ELSE SubSeq(r, p + 1, p + j)]
       ELSE NoMatch

\* AbstractEpicsNameValidator.isValid (inherited by the configuration validator)
isValid(s) == Match(s).ok

\* AbstractEpicsNameValidator.getDeviceName
getDeviceName(s) ==
    LET m == Match(s)
        devname == IF m.devname # None THEN m.devname ELSE DEFAULT_DEVICE
    IN IF ~m.ok THEN None
       ELSE Scheme \o SchemeSep \o Fmt(devname) \o Fmt(m.base_sep)

\* EpicsAttributeNameValidator.isValid
AttrIsValid(s) == LET m == Match(s) IN m.ok /\ m.attrname # None

\* EpicsAttributeNameValidator.getNames
AttrGetNames(s) ==
    LET m == Match(s)
        attr_name   == m.attrname
        normal_name == m.epicsname
        fullname    == Fmt(m.scheme) \o SchemeSep \o Fmt(normal_name)
    IN IF ~m.ok THEN None ELSE <<fullname, normal_name, attr_name>>

\* EpicsDeviceNameValidator.isValid
DevIsValid(s) == LET m == Match(s) IN m.ok /\ m.attrname = None

\* EpicsDeviceNameValidator.getNames
DevGetNames(s) ==
    LET m == Match(s)
        devname     == m.devname
        normal_name == m.epicsname
        full_name   == getDeviceName(s)
    IN IF ~m.ok THEN None ELSE <<full_name, normal_name, devname>>

(* --------------------------- input strings ---------------------------- *)

Alphabet == {"a", ":", "?", "#"}

RECURSIVE SeqsOfLen(_)
SeqsOfLen(n) ==
    IF n = 0 THEN {<<>>}
    ELSE {Append(b, c) : b \in SeqsOfLen(n - 1), c \in Alphabet}

Bodies == UNION {SeqsOfLen(n) : n \in 0..MaxBody}

\* well-prefixed strings, strings without the scheme, strings where the
\* scheme is not at the start
InputStrings ==
    {Scheme \o SchemeSep \o b : b \in Bodies}
        \cup {b \in Bodies : Len(b) <= 3}
        \cup {<<"a">> \o Scheme \o SchemeSep \o b : b \in {x \in Bodies : Len(x) <= 2}}

NotCalled == [s |-> <<>>, pc |-> "idle", attr_valid |-> FALSE, attr_names |-> None,
              attr_devname |-> None, dev_valid |-> FALSE, dev_names |-> None]

(* ------------------- calls of the name validators --------------------- *)

\* EpicsAttributeNameValidator().isValid(s), .getNames(s) and .getDeviceName(s)
CallAttrValidator ==
    /\ nv.pc \in {"input", "dev"}
    /\ nv' = [nv EXCEPT !.pc = IF nv.pc = "input" THEN "attr" ELSE "both",
                        !.attr_valid = AttrIsValid(nv.s),
                        !.attr_names = AttrGetNames(nv.s),
                        !.attr_devname = getDeviceName(nv.s)]
    /\ UNCHANGED factoryVars

\* EpicsDeviceNameValidator().isValid(s) and .getNames(s)
CallDevValidator ==
    /\ nv.pc \in {"input", "attr"}
    /\ nv' = [nv EXCEPT !.pc = IF nv.pc = "input" THEN "dev" ELSE "both",
                        !.dev_valid = DevIsValid(nv.s),
                        !.dev_names = DevGetNames(nv.s)]
    /\ UNCHANGED factoryVars

NextNames == CallAttrValidator \/ CallDevValidator

AttrCalled == nv.pc \in {"attr", "both"}

DevCalled == nv.pc \in {"dev", "both"}

\* s = prefix \o D \o ":" \o A, cut at position k of the text after the prefix
DevPart(s, k) == SubSeq(s, Len(Scheme \o SchemeSep) + 1, Len(Scheme \o SchemeSep) + k)

AttrPart(s, k) == SubSeq(s, Len(Scheme \o SchemeSep) + k + 2, Len(s))

HasPrefix(s) ==
    /\ Len(s) >= Len(Scheme \o SchemeSep)
    /\ SubSeq(s, 1, Len(Scheme \o SchemeSep)) = Scheme \o SchemeSep

BodyLen(s) == Len(s) - Len(Scheme \o SchemeSep)

\* the cuts of s as 'epics://D:A' with D non-empty, A non-empty and free of ':'
AttrCuts(s) ==
    IF ~HasPrefix(s) THEN {}
    ELSE {k \in 1..(BodyLen(s) - 2) :
            /\ s[Len(Scheme \o SchemeSep) + k + 1] = ":"
            /\ \A i \in 1..Len(AttrPart(s, k)) : AttrPart(s, k)[i] # ":"}

\* the cuts of s as 'epics://D:' with D non-empty
DevCuts(s) ==
    IF ~HasPrefix(s) THEN {}
    ELSE {k \in 1..(BodyLen(s) - 1) : k = BodyLen(s) - 1 /\ s[Len(s)] = ":"}

UriFree(x) == \A i \in 1..Len(x) : x[i] \notin {"?", "#"}

(* --------------------------- the factory ------------------------------ *)

\* the factory's registries and the objects they refer to, as one value
Cur == [devs |-> epics_devs, attrs |-> epics_attrs, cfgs |-> epics_configs,
        objs |-> objs, nextId |-> nextId]

\* dict.get(key, None); 0 stands for None among object references
Lookup(d, key) == IF key \in DOMAIN d THEN d[key] ELSE 0

\* d[key] = value
Put(d, key, value) == [x \in DOMAIN d \cup {key} |-> IF x = key THEN value ELSE d[x]]

Drop(f, S) == [x \in DOMAIN f \ S |-> f[x]]

Ok(st, ret) == [st |-> st, ret |-> ret, exc |-> "none"]

Raise(st, exc) == [st |-> st, ret |-> 0, exc |-> exc]

\* a freshly constructed model object: TaurusModel keeps the name and the
\* parent, EpicsAttribute.__init__ sets the value, the configuration
\* reference and the subscription state
NewObj(cls, name, parent) ==
    [cls |-> cls, full_name |-> name, parent |-> parent, attr_config |-> 0,
     listeners |-> <<>>, subscription_state |-> "Unsubscribed",
     value |-> "None", polling |-> FALSE]

\* the object under construction gets the next identity
Alloc(st, o) == [st EXCEPT !.objs = Put(st.objs, st.nextId, o), !.nextId = st.nextId + 1]

\* an exception leaves the constructor: the object was never referenced, and
\* its identity is free again
Discard(st, id) == [st EXCEPT !.objs = Drop(st.objs, {id}), !.nextId = id]

\* _storeDev that lets the same object register twice
storeDevSameOk(st, dev) ==
    LET name   == st.objs[dev].full_name
        exists == Lookup(st.devs, name)
    IN IF exists # 0 /\ exists # dev
       THEN Raise(st, "DoubleRegistration")
       ELSE Ok([st EXCEPT !.devs = Put(st.devs, name, dev)], 0)

\* EpicsFactory._storeDev
_storeDev(st, dev) ==
    LET name   == st.objs[dev].full_name
        exists == Lookup(st.devs, name)
    IN IF exists # 0
       THEN IF exists = dev
            THEN Raise(st, "DoubleRegistration")
            ELSE Raise(st, "DoubleRegistration")
       ELSE Ok([st EXCEPT !.devs = Put(st.devs, name, dev)], 0)

\* EpicsFactory._storeAttr
_storeAttr(st, attr) ==
    LET name   == st.objs[attr].full_name
        exists == Lookup(st.attrs, name)
    IN IF exists # 0
       THEN IF exists = attr
            THEN Raise(st, "DoubleRegistration")
            ELSE Raise(st, "DoubleRegistration")
       ELSE Ok([st EXCEPT !.attrs = Put(st.attrs, name, attr)], 0)

\* EpicsFactory._storeConfig
_storeConfig(st, fullname, config) ==
    LET name   == fullname
        exists == Lookup(st.cfgs, name)
    IN IF exists # 0
       THEN IF exists = config
            THEN Raise(st, "DoubleRegistration")
            ELSE Raise(st, "DoubleRegistration")
       ELSE Ok([st EXCEPT !.cfgs = Put(st.cfgs, name, config)], 0)

\* EpicsDevice(name, parent=db, storeCallback=self._storeDev): the base
\* constructor ends by calling the store callback with the new object
EpicsDevice(st, name) ==
    LET id == st.nextId
        r  == _storeDev(Alloc(st, NewObj("dev", name, 0)), id)
    IN IF r.exc # "none" THEN Raise(Discard(r.st, id), r.exc) ELSE Ok(r.st, id)

\* EpicsAttribute(name, parent=dev, storeCallback=self._storeAttr)
EpicsAttribute(st, name, parent) ==
    LET id == st.nextId
        r  == _storeAttr(Alloc(st, NewObj("attr", name, parent)), id)
    IN IF r.exc # "none" THEN Raise(Discard(r.st, id), r.exc) ELSE Ok(r.st, id)

\* EpicsConfiguration(name, parent), as _getRealConfig builds it: no callback
EpicsConfiguration(st, name, parent) ==
    Ok(Alloc(st, NewObj("cfg", name, parent)), st.nextId)

\* getDevice without the lookup by full name
getDeviceNoFullLookup(st, dev_name) ==
    LET d     == Lookup(st.devs, dev_name)
        names == DevGetNames(dev_name)
    IN IF d # 0 THEN Ok(st, d)
       ELSE IF names = None THEN Raise(st, "TaurusException")
       ELSE EpicsDevice(st, names[1])

\* EpicsFactory.getDevice
getDeviceOp(st, dev_name) ==
    LET d        == Lookup(st.devs, dev_name)
        names    == DevGetNames(dev_name)
        fullname == names[1]
        d2       == Lookup(st.devs, fullname)
    IN IF d # 0 THEN Ok(st, d)
       ELSE IF names = None THEN Raise(st, "TaurusException")
       ELSE IF d2 # 0 THEN Ok(st, d2)
       ELSE EpicsDevice(st, fullname)

\* getAttribute that builds the device itself instead of asking getDevice
getAttributeOwnDevice(st, attr_name) ==
    LET a        == Lookup(st.attrs, attr_name)
        names    == AttrGetNames(attr_name)
        fullname == names[1]
        a2       == Lookup(st.attrs, fullname)
        dev      == EpicsDevice(st, getDeviceName(attr_name))
    IN IF a # 0 THEN Ok(st, a)
       ELSE IF names = None THEN Raise(st, "TaurusException")
       ELSE IF a2 # 0 THEN Ok(st, a2)
       ELSE IF dev.exc # "none" THEN Raise(dev.st, dev.exc)
       ELSE EpicsAttribute(dev.st, fullname, dev.ret)

\* EpicsFactory.getAttribute
getAttributeOp(st, attr_name) ==
    LET a        == Lookup(st.attrs, attr_name)
        names    == AttrGetNames(attr_name)
        fullname == names[1]
        a2       == Lookup(st.attrs, fullname)
        dev      == getDeviceOp(st, getDeviceName(attr_name))
    IN IF a # 0 THEN Ok(st, a)
       ELSE IF names = None THEN Raise(st, "TaurusException")
       ELSE IF a2 # 0 THEN Ok(st, a2)
       ELSE IF dev.exc # "none" THEN Raise(dev.st, dev.exc)
       ELSE EpicsAttribute(dev.st, fullname, dev.ret)

\* EpicsAttribute._getRealConfig
_getRealConfig(st, attr) ==
    LET cfg_name == st.objs[attr].full_name \o CfgSuffix
        c        == EpicsConfiguration(st, cfg_name, attr)
    IN IF st.objs[attr].attr_config = 0
       THEN Ok([c.st EXCEPT !.objs[attr].attr_config = c.ret], c.ret)
       ELSE Ok(st, st.objs[attr].attr_config)

\* _getConfigurationFromAttribute that forgets the attribute's name in the key
getConfigurationFromAttributeBadKey(st, attr) ==
    LET c == _getRealConfig(st, attr)
    IN Ok([c.st EXCEPT !.cfgs = Put(c.st.cfgs, CfgSuffix, c.ret)], c.ret)

\* EpicsFactory._getConfigurationFromAttribute
_getConfigurationFromAttribute(st, attr) ==
    LET c        == _getRealConfig(st, attr)
        cfg_name == c.st.objs[attr].full_name \o CfgSuffix
    IN Ok([c.st EXCEPT !.cfgs = Put(c.st.cfgs, cfg_name, c.ret)], c.ret)

\* EpicsConfigurationNameValidator.getNames: the class body is 'pass', so
\* this is AbstractEpicsNameValidator.getNames, which raises RuntimeError
CfgGetNames(s) == <<"<raise>", "RuntimeError">>

\* EpicsFactory._getConfigurationFromName
_getConfigurationFromName(st, cfg_name) ==
    LET cfg   == Lookup(st.cfgs, cfg_name)
        names == CfgGetNames(cfg_name)
        cfg2  == Lookup(st.cfgs, names[1])
    IN IF cfg # 0 THEN Ok(st, cfg)
       ELSE IF names[1] = "<raise>" THEN Raise(st, names[2])
       ELSE IF names = None THEN Raise(st, "TaurusException")
       ELSE IF cfg2 # 0 THEN Ok(st, cfg2)
       ELSE Raise(st, "AttributeError")

(* ------------------------ calls of the factory ------------------------ *)

Prefix == Scheme \o SchemeSep

\* the names the clients pass: 'epics://a:', 'epics://a:b', 'epics://a:b?c',
\* 'epics://b' and 'a:b'
FactoryNames ==
    { Prefix \o <<"a", ":">>,
      Prefix \o <<"a", ":", "b">>,
      Prefix \o <<"a", ":", "b", "?", "c">>,
      Prefix \o <<"b">>,
      <<"a", ":", "b">> }

\* the strings passed to getConfiguration: 'epics://a:b?configuration',
\* 'epics://a:b' and 'a:b'
ConfigNames ==
    { Prefix \o <<"a", ":", "b">> \o CfgSuffix,
      Prefix \o <<"a", ":", "b">>,
      <<"a", ":", "b">> }

Listeners == {"l1", "l2"}

Values == {"None", "v1"}

\* longest queue of jobs waiting in the manager's thread pool
MaxJobs == 2

Live == DOMAIN objs

LiveOf(cls) == {x \in Live : objs[x].cls = cls}

Call(op, arg, obj, ret, exc, val) ==
    [op |-> op, arg |-> arg, obj |-> obj, ret |-> ret, exc |-> exc, val |-> val]

\* the outcome r of a factory method becomes the next state
Commit(r, op, arg, obj) ==
    /\ r.st.nextId <= MaxObjs + 1
    /\ epics_devs' = r.st.devs
    /\ epics_attrs' = r.st.attrs
    /\ epics_configs' = r.st.cfgs
    /\ objs' = r.st.objs
    /\ nextId' = r.st.nextId
    /\ last' = Call(op, arg, obj, r.ret, r.exc, "")

getDevice(dev_name) ==
    /\ Commit(getDeviceOp(Cur, dev_name), "getDevice", dev_name, 0)
    /\ UNCHANGED <<nv, polling_timers, jobs, returned>>

getAttribute(attr_name) ==
    /\ Commit(getAttributeOp(Cur, attr_name), "getAttribute", attr_name, 0)
    /\ UNCHANGED <<nv, polling_timers, jobs, returned>>

\* the same calls, with a log of which object each lookup has returned
getDeviceLogged(dev_name) ==
    /\ Commit(getDeviceOp(Cur, dev_name), "getDevice", dev_name, 0)
    /\ returned' = IF last'.exc = "none"
                   THEN returned \cup {<<"getDevice", dev_name, last'.ret>>}
                   ELSE returned
    /\ UNCHANGED <<nv, polling_timers, jobs>>

getAttributeLogged(attr_name) ==
    /\ Commit(getAttributeOp(Cur, attr_name), "getAttribute", attr_name, 0)
    /\ returned' = IF last'.exc = "none"
                   THEN returned \cup {<<"getAttribute", attr_name, last'.ret>>}
                   ELSE returned
    /\ UNCHANGED <<nv, polling_timers, jobs>>

\* EpicsFactory.getConfiguration: a str goes to _getConfigurationFromName,
\* anything else (an attribute) to _getConfigurationFromAttribute
getConfigurationStr(param) ==
    /\ Commit(_getConfigurationFromName(Cur, param), "getConfiguration", param, 0)
    /\ UNCHANGED <<nv, polling_timers, jobs, returned>>

getConfigurationAttr(param) ==
    /\ param \in LiveOf("attr")
    /\ Commit(_getConfigurationFromAttribute(Cur, param), "getConfigurationAttr", <<>>, param)
    /\ UNCHANGED <<nv, polling_timers, jobs, returned>>

\* the objects that go when the last reference to x is dropped: an attribute
\* and its configuration refer to each other and go together
Garbage(x) == IF objs[x].attr_config # 0 THEN {x, objs[x].attr_config} ELSE {x}

\* The registries are WeakValueDictionary: an object nobody refers to any
\* more disappears from them. A child refers to its parent, a queued job to
\* its attribute; an attribute in a polling timer is taken to be in use.
Collect(x) ==
    /\ x \in Live
    /\ objs[x].cls \in {"dev", "attr"}
    /\ \A y \in Live \ Garbage(x) : objs[y].parent # x
    /\ \A i \in 1..Len(jobs) : jobs[i][1] # x
    /\ \A p \in DOMAIN polling_timers : x \notin polling_timers[p]
    /\ objs' = Drop(objs, Garbage(x))
    /\ epics_devs' = Drop(epics_devs, {n \in DOMAIN epics_devs : epics_devs[n] \in Garbage(x)})
    /\ epics_attrs' = Drop(epics_attrs, {n \in DOMAIN epics_attrs : epics_attrs[n] \in Garbage(x)})
    /\ epics_configs' = Drop(epics_configs, {n \in DOMAIN epics_configs : epics_configs[n] \in Garbage(x)})
    /\ returned' = {t \in returned : t[3] \notin Garbage(x)}
    /\ last' = Call("collect", <<>>, x, 0, "none", "")
    /\ UNCHANGED <<nv, polling_timers, nextId, jobs>>

Init ==
    /\ nv = NotCalled
    /\ epics_devs = <<>>
    /\ epics_attrs = <<>>
    /\ epics_configs = <<>>
    /\ objs = <<>>
    /\ nextId = 1
    /\ last = Call("init", <<>>, 0, 0, "none", "")
    /\ returned = {}
    /\ jobs = <<>>
    /\ polling_timers = <<>>

InitNames ==
    /\ nv \in {[NotCalled EXCEPT !.s = x, !.pc = "input"] : x \in InputStrings}
    /\ epics_devs = <<>>
    /\ epics_attrs = <<>>
    /\ epics_configs = <<>>
    /\ objs = <<>>
    /\ nextId = 1
    /\ last = Call("init", <<>>, 0, 0, "none", "")
    /\ returned = {}
    /\ jobs = <<>>
    /\ polling_timers = <<>>

Next ==
    \/ \E n \in FactoryNames : getDevice(n)
    \/ \E n \in FactoryNames : getAttribute(n)
    \/ \E n \in ConfigNames : getConfigurationStr(n)
    \/ \E a \in Live : getConfigurationAttr(a)
    \/ \E x \in Live : Collect(x)

Spec == Init /\ [][Next]_vars

NextLookup ==
    \/ \E n \in FactoryNames : getDeviceLogged(n)
    \/ \E n \in FactoryNames : getAttributeLogged(n)
    \/ \E x \in Live : Collect(x)

SpecLookup == Init /\ [][NextLookup]_vars

SpecNames == InitNames /\ [][NextNames]_vars

(* ----------------------- direct registrations ------------------------- *)

\* the names used with direct registrations: 'epics://a:' and 'epics://a:b'
StoreNames ==
    { Prefix \o <<"a", ":">>,
      Prefix \o <<"a", ":", "b">> }

\* the full names of the devices and attributes that StoreNames denote
DevFullNames == {DevGetNames(n)[1] : n \in {x \in StoreNames : DevGetNames(x) # None}}

AttrFullNames == {AttrGetNames(n)[1] : n \in {x \in StoreNames : AttrGetNames(x) # None}}

\* a client builds EpicsDevice(name, parent=db, storeCallback=f._storeDev)
DirectDevice(name) ==
    /\ Commit(EpicsDevice(Cur, name), "EpicsDevice", name, 0)
    /\ UNCHANGED <<nv, polling_timers, jobs, returned>>

\* a client builds EpicsAttribute(name, parent=dev, storeCallback=f._storeAttr)
DirectAttribute(name, dev) ==
    /\ dev \in LiveOf("dev")
    /\ Commit(EpicsAttribute(Cur, name, dev), "EpicsAttribute", name, 0)
    /\ UNCHANGED <<nv, polling_timers, jobs, returned>>

\* f._storeDev(dev) for a device that exists
CallStoreDev(dev) ==
    /\ dev \in LiveOf("dev")
    /\ Commit(_storeDev(Cur, dev), "_storeDev", objs[dev].full_name, dev)
    /\ UNCHANGED <<nv, polling_timers, jobs, returned>>

\* f._storeAttr(attr) for an attribute that exists
CallStoreAttr(attr) ==
    /\ attr \in LiveOf("attr")
    /\ Commit(_storeAttr(Cur, attr), "_storeAttr", objs[attr].full_name, attr)
    /\ UNCHANGED <<nv, polling_timers, jobs, returned>>

\* f._storeConfig(fullname, config) for a configuration that exists
CallStoreConfig(fullname, config) ==
    /\ config \in LiveOf("cfg")
    /\ Commit(_storeConfig(Cur, fullname, config), "_storeConfig", fullname, config)
    /\ UNCHANGED <<nv, polling_timers, jobs, returned>>

NextStore ==
    \/ \E n \in StoreNames : getDevice(n)
    \/ \E n \in StoreNames : getAttribute(n)
    \/ \E a \in Live : getConfigurationAttr(a)
    \/ \E n \in DevFullNames : DirectDevice(n)
    \/ \E n \in AttrFullNames : \E d \in Live : DirectAttribute(n, d)
    \/ \E d \in Live : CallStoreDev(d)
    \/ \E a \in Live : CallStoreAttr(a)
    \/ \E n \in ConfigNames : \E c \in Live : CallStoreConfig(n, c)

SpecStore == Init /\ [][NextStore]_vars

(* ------------------------- the attribute ------------------------------ *)

\* write that stores the value instead of refusing
writeStores(st, attr, value, with_read) ==
    Ok([st EXCEPT !.objs[attr].value = value], 0)

\* EpicsAttribute.write
writeOp(st, attr, value, with_read) == Raise(st, "TaurusException")

write(attr, value, with_read) ==
    /\ attr \in LiveOf("attr")
    /\ Commit(writeOp(Cur, attr, value, with_read), "write", <<>>, attr)
    /\ UNCHANGED <<nv, polling_timers, jobs, returned>>

\* EpicsAttribute.read: the cached value, also when cache is False
read(attr, cache) ==
    /\ attr \in LiveOf("attr")
    /\ last' = Call("read", <<>>, attr, 0, "none", objs[attr].value)
    /\ UNCHANGED <<nv, polling_timers, epics_devs, epics_attrs, epics_configs, objs, nextId, jobs, returned>>

\* TaurusModel.addListener: False when the listener is already there
ListAdd(ls, l) == IF \E i \in 1..Len(ls) : ls[i] = l THEN ls ELSE Append(ls, l)

\* TaurusModel.removeListener: False when the listener is not there
ListRemove(ls, l) == SelectSeq(ls, LAMBDA x : x # l)

Has(ls, l) == \E i \in 1..Len(ls) : ls[i] = l

\* addListener without the early return for a listener that is already there
addListenerNoEarlyReturn(attr, listener, refs) ==
    /\ attr \in LiveOf("attr")
    /\ LET c       == _getRealConfig(Cur, attr)
           cfg     == c.ret
           o0      == [c.st.objs EXCEPT ![cfg].listeners = ListAdd(@, listener)]
           initial == o0[attr].subscription_state
           ret     == ~Has(o0[attr].listeners, listener)
           o1      == [o0 EXCEPT ![attr].listeners = ListAdd(@, listener)]
           fails   == initial = "Unsubscribed" /\ ~refs
           o2      == IF ~fails
                      THEN [o1 EXCEPT ![attr].subscription_state = "Subscribed"]
                      ELSE o1
           fire    == /\ ~fails
                      /\ Len(o2[attr].listeners) > 1
                      /\ (initial = "Subscribed" \/ o2[attr].polling)
       IN /\ c.st.nextId <= MaxObjs + 1
          /\ objs' = o2
          /\ nextId' = c.st.nextId
          /\ jobs' = IF fire THEN Append(jobs, <<attr, listener>>) ELSE jobs
          /\ Len(jobs') <= MaxJobs
          /\ last' = Call("addListener", <<listener>>, attr, 0,
                          IF fails THEN "AttributeError" ELSE "none",
                          IF ret THEN "True" ELSE "False")
    /\ UNCHANGED <<nv, polling_timers, epics_devs, epics_attrs, epics_configs, returned>>

\* EpicsAttribute.addListener. refs tells whether the attribute has the
\* _references list the loop of the first subscription iterates over:
\* __init__ does not set it, so it is there only if a base class provides it;
\* if not, the loop raises AttributeError after the listener was added.
addListener(attr, listener, refs) ==
    /\ attr \in LiveOf("attr")
    /\ LET c       == _getRealConfig(Cur, attr)
           cfg     == c.ret
           o0      == [c.st.objs EXCEPT ![cfg].listeners = ListAdd(@, listener)]
           initial == o0[attr].subscription_state
           ret     == ~Has(o0[attr].listeners, listener)
           o1      == [o0 EXCEPT ![attr].listeners = ListAdd(@, listener)]
           fails   == ret /\ initial = "Unsubscribed" /\ ~refs
           o2      == IF ret /\ ~fails
                      THEN [o1 EXCEPT ![attr].subscription_state = "Subscribed"]
                      ELSE o1
           fire    == /\ ret /\ ~fails
                      /\ Len(o2[attr].listeners) > 1
                      /\ (initial = "Subscribed" \/ o2[attr].polling)
       IN /\ c.st.nextId <= MaxObjs + 1
          /\ objs' = o2
          /\ nextId' = c.st.nextId
          /\ jobs' = IF fire THEN Append(jobs, <<attr, listener>>) ELSE jobs
          /\ Len(jobs') <= MaxJobs
          /\ last' = Call("addListener", <<listener>>, attr, 0,
                          IF fails THEN "AttributeError" ELSE "none",
                          IF ret THEN "True" ELSE "False")
    /\ UNCHANGED <<nv, polling_timers, epics_devs, epics_attrs, epics_configs, returned>>

\* removeListener that stops the polling whenever it removes a listener
removeListenerAlwaysStops(attr, listener) ==
    /\ attr \in LiveOf("attr")
    /\ LET ret == Has(objs[attr].listeners, listener)
           o0  == [objs EXCEPT ![attr].listeners = ListRemove(@, listener)]
           c   == _getRealConfig([Cur EXCEPT !.objs = o0], attr)
           cfg == c.ret
           o1  == [c.st.objs EXCEPT ![cfg].listeners = ListRemove(@, listener)]
           o2  == IF ret
                  THEN [o1 EXCEPT ![attr].polling = FALSE,
                                  ![attr].subscription_state = "Unsubscribed"]
                  ELSE o1
       IN /\ c.st.nextId <= MaxObjs + 1
          /\ objs' = o2
          /\ nextId' = c.st.nextId
          /\ last' = Call("removeListener", <<listener>>, attr, 0, "none",
                          IF ret THEN "True" ELSE "False")
    /\ UNCHANGED <<nv, polling_timers, epics_devs, epics_attrs, epics_configs, jobs, returned>>

\* EpicsAttribute.removeListener
removeListener(attr, listener) ==
    /\ attr \in LiveOf("attr")
    /\ LET ret == Has(objs[attr].listeners, listener)
           o0  == [objs EXCEPT ![attr].listeners = ListRemove(@, listener)]
           c   == _getRealConfig([Cur EXCEPT !.objs = o0], attr)
           cfg == c.ret
           o1  == [c.st.objs EXCEPT ![cfg].listeners = ListRemove(@, listener)]
           o2  == IF ret /\ Len(o1[attr].listeners) = 0
                  THEN [o1 EXCEPT ![attr].polling = FALSE,
                                  ![attr].subscription_state = "Unsubscribed"]
                  ELSE o1
       IN /\ c.st.nextId <= MaxObjs + 1
          /\ objs' = o2
          /\ nextId' = c.st.nextId
          /\ last' = Call("removeListener", <<listener>>, attr, 0, "none",
                          IF ret THEN "True" ELSE "False")
    /\ UNCHANGED <<nv, polling_timers, epics_devs, epics_attrs, epics_configs, jobs, returned>>

\* TaurusAttribute activates the polling of the attribute
activatePolling(attr) ==
    /\ attr \in LiveOf("attr")
    /\ objs' = [objs EXCEPT ![attr].polling = TRUE]
    /\ last' = Call("activatePolling", <<>>, attr, 0, "none", "")
    /\ UNCHANGED <<nv, polling_timers, epics_devs, epics_attrs, epics_configs, nextId, jobs, returned>>

\* the manager runs the oldest job: __fireRegisterEvent reads and fires
RunJob ==
    /\ jobs # <<>>
    /\ jobs' = Tail(jobs)
    /\ last' = Call("job", <<>>, jobs[1][1], 0, "none", objs[jobs[1][1]].value)
    /\ UNCHANGED <<nv, polling_timers, epics_devs, epics_attrs, epics_configs, objs, nextId, returned>>

\* the attribute that gets listeners: 'epics://a:b', also as 'epics://a:b?c'
AttrNames ==
    { Prefix \o <<"a", ":", "b">>,
      Prefix \o <<"a", ":", "b", "?", "c">> }

NextAttr ==
    \/ \E n \in AttrNames : getAttribute(n)
    \/ \E a \in Live : \E v \in Values : \E w \in BOOLEAN : write(a, v, w)
    \/ \E a \in Live : \E c \in BOOLEAN : read(a, c)
    \/ \E a \in Live : \E l \in Listeners : \E refs \in BOOLEAN : addListener(a, l, refs)
    \/ \E a \in Live : \E l \in Listeners : removeListener(a, l)
    \/ \E a \in Live : activatePolling(a)
    \/ RunJob

SpecAttr == Init /\ [][NextAttr]_vars

(* -------------------------- polling timers ---------------------------- *)

\* the polling periods the clients ask for
Periods == {0, 1, 2}

\* 'epics://a:b' and 'epics://b'
PollNames ==
    { Prefix \o <<"a", ":", "b">>,
      Prefix \o <<"b">> }

\* TaurusPollingTimer.containsAttribute; a timer is the set of its attributes
containsAttribute(timer, attribute) == attribute \in timer

\* TaurusPollingTimer.getAttributeCount
getAttributeCount(timer) == Cardinality(timer)

\* the timers that hold the attribute
Holders(timers, attribute) ==
    {p \in DOMAIN timers : containsAttribute(timers[p], attribute)}

\* EpicsFactory.addAttributeToPolling: the timer of the period, a new one if
\* there is none, gets the attribute
addAttributeToPollingOp(timers, attribute, period) ==
    LET tmr == IF period \in DOMAIN timers THEN timers[period] ELSE {}
    IN Put(timers, period, tmr \cup {attribute})

\* EpicsFactory.removeAttributeFromPolling, period being the first timer of
\* the iteration that holds the attribute: the loop ends there ('break'),
\* and the timer is deleted if it is empty and its period is not 0 ('if p')
removeAttributeFromPollingOp(timers, attribute, period) ==
    LET timer == timers[period] \ {attribute}
        p     == IF getAttributeCount(timer) = 0 THEN period ELSE 0
    IN IF p # 0
       THEN Drop(timers, {period})
       ELSE [timers EXCEPT ![period] = timer]

addAttributeToPolling(attribute, period) ==
    /\ attribute \in LiveOf("attr")
    /\ polling_timers' = addAttributeToPollingOp(polling_timers, attribute, period)
    /\ last' = Call("addAttributeToPolling", <<period>>, attribute, 0, "none", "")
    /\ UNCHANGED <<nv, epics_devs, epics_attrs, epics_configs, objs, nextId, jobs, returned>>

\* the dictionary is iterated in no particular order: any timer that holds
\* the attribute may come first
removeAttributeFromPolling(attribute) ==
    /\ attribute \in LiveOf("attr")
    /\ IF Holders(polling_timers, attribute) = {}
       THEN polling_timers' = polling_timers
       ELSE \E period \in Holders(polling_timers, attribute) :
               polling_timers' = removeAttributeFromPollingOp(polling_timers, attribute, period)
    /\ last' = Call("removeAttributeFromPolling", <<>>, attribute, 0, "none", "")
    /\ UNCHANGED <<nv, epics_devs, epics_attrs, epics_configs, objs, nextId, jobs, returned>>

NextPolling ==
    \/ \E n \in PollNames : getAttribute(n)
    \/ \E a \in Live : \E period \in Periods : addAttributeToPolling(a, period)
    \/ \E a \in Live : removeAttributeFromPolling(a)

SpecPolling == Init /\ [][NextPolling]_vars

(* ------------------------------ claims -------------------------------- *)

Body(s) == SubSeq(s, Len(Prefix) + 1, Len(s))

RegistriesUnchanged ==
    /\ epics_devs' = epics_devs
    /\ epics_attrs' = epics_attrs
    /\ epics_configs' = epics_configs

\* every entry of a registry refers to a live object of the registry's class
\* that carries the entry's name, and no two live objects of one class
\* carry the same full name
UniqueNames ==
    /\ \A n \in DOMAIN epics_devs :
          /\ epics_devs[n] \in LiveOf("dev")
          /\ objs[epics_devs[n]].full_name = n
    /\ \A n \in DOMAIN epics_attrs :
          /\ epics_attrs[n] \in LiveOf("attr")
          /\ objs[epics_attrs[n]].full_name = n
    /\ \A n \in DOMAIN epics_configs :
          /\ epics_configs[n] \in LiveOf("cfg")
          /\ objs[epics_configs[n]].full_name = n
    /\ \A x, y \in Live :
          objs[x].cls = objs[y].cls /\ objs[x].full_name = objs[y].full_name => x = y

\* a name bound to an object that stays alive stays bound to that object
KeepsBinding(reg, reg2) ==
    \A n \in DOMAIN reg : reg[n] \in DOMAIN objs' => n \in DOMAIN reg2 /\ reg2[n] = reg[n]

\* C1: in every state reached by getDevice, getAttribute and getConfiguration
\* calls each registry holds one live object per full name, registered under
\* its own name, and no call rebinds the name of a live object to another.
C1_UniqueBinding ==
    [][/\ UniqueNames'
       /\ KeepsBinding(epics_devs, epics_devs')
       /\ KeepsBinding(epics_attrs, epics_attrs')
       /\ KeepsBinding(epics_configs, epics_configs')]_vars

\* two attributes are alive, all registries are filled and the configuration
\* of an attribute has just been asked for
C1_Witness ==
    /\ last.op = "getConfigurationAttr"
    /\ Cardinality(LiveOf("attr")) >= 2
    /\ Cardinality(DOMAIN epics_configs) >= 2
    /\ epics_devs # <<>>

\* C2: _storeDev, _storeAttr and _storeConfig called for a name that is
\* already in the registry raise DoubleRegistration, for the registered object
\* as for another one, and leave the registries as they were.
C2_DoubleRegistration ==
    [][/\ (last'.op \in {"_storeDev", "EpicsDevice"} /\ last'.arg \in DOMAIN epics_devs)
            => last'.exc = "DoubleRegistration" /\ RegistriesUnchanged
       /\ (last'.op \in {"_storeAttr", "EpicsAttribute"} /\ last'.arg \in DOMAIN epics_attrs)
            => last'.exc = "DoubleRegistration" /\ RegistriesUnchanged
       /\ (last'.op = "_storeConfig" /\ last'.arg \in DOMAIN epics_configs)
            => last'.exc = "DoubleRegistration" /\ RegistriesUnchanged]_vars

\* _storeConfig has refused a configuration under a name that another
\* configuration holds
C2_Witness ==
    /\ last.op = "_storeConfig"
    /\ last.exc = "DoubleRegistration"
    /\ last.arg \in DOMAIN epics_configs
    /\ epics_configs[last.arg] # last.obj
    /\ \E d \in LiveOf("dev") : epics_devs[objs[d].full_name] = d

\* C3: getDevice with a name that is not a valid device name and getAttribute
\* with a name that is not a valid attribute name raise TaurusException and
\* create and register nothing.
C3_InvalidNameRaises ==
    [][(\/ last'.op = "getDevice" /\ ~DevIsValid(last'.arg)
        \/ last'.op = "getAttribute" /\ ~AttrIsValid(last'.arg))
          => /\ last'.exc = "TaurusException"
             /\ RegistriesUnchanged
             /\ objs' = objs]_vars

\* C4: getConfiguration with a string returns the registered configuration or
\* raises TaurusException, and raises it for a string that is neither a valid
\* configuration name nor a key of epics_configs.
C4_ConfigurationNameRaises ==
    [][last'.op = "getConfiguration"
          => /\ \/ last'.exc = "TaurusException"
                \/ /\ last'.exc = "none"
                   /\ \E n \in DOMAIN epics_configs : epics_configs[n] = last'.ret
             /\ (~isValid(last'.arg) /\ last'.arg \notin DOMAIN epics_configs)
                   => last'.exc = "TaurusException"]_vars

\* C5: for every string a validator accepts, the full name of its getNames
\* is the string itself.
C5_RoundTrip ==
    /\ (AttrCalled /\ nv.attr_valid) => nv.attr_names[1] = nv.s
    /\ (DevCalled /\ nv.dev_valid) => nv.dev_names[1] = nv.s

\* s is epics://[device:]attribute as a whole, the attribute part non-empty
\* and free of ':', '?' and '#'
WholeForm(s) ==
    /\ HasPrefix(s)
    /\ \/ Len(Body(s)) > 0 /\ \A i \in 1..Len(Body(s)) : AttrChar(Body(s)[i])
       \/ \E k \in AttrCuts(s) : UriFree(AttrPart(s, k))

\* C6: the attribute validator accepts a string only if the whole string has
\* the form epics://[device:]attribute.
C6_MalformedRejected == (AttrCalled /\ nv.attr_valid) => WholeForm(nv.s)

\* C7 as stated: every 'epics://D:A' with D non-empty and A non-empty without
\* ':' gives ('epics://D:A', 'D:A', 'A'), and every 'epics://D:' gives
\* ('epics://D:', 'D:', 'D').
C7_DecompositionAnyChars ==
    /\ AttrCalled =>
          \A k \in AttrCuts(nv.s) :
              nv.attr_names = <<nv.s, Body(nv.s), AttrPart(nv.s, k)>>
    /\ DevCalled =>
          \A k \in DevCuts(nv.s) :
              nv.dev_names = <<nv.s, Body(nv.s), DevPart(nv.s, k)>>

\* C7: the same for D and A free of '?' and '#'; the device of 'epics://D:A'
\* is then 'epics://D:', D being the text up to the last ':'.
C7_Decomposition ==
    /\ AttrCalled =>
          \A k \in AttrCuts(nv.s) :
              UriFree(Body(nv.s)) =>
                 /\ nv.attr_names = <<nv.s, Body(nv.s), AttrPart(nv.s, k)>>
                 /\ nv.attr_devname = Prefix \o DevPart(nv.s, k) \o <<":">>
    /\ DevCalled =>
          \A k \in DevCuts(nv.s) :
              UriFree(Body(nv.s)) =>
                 nv.dev_names = <<nv.s, Body(nv.s), DevPart(nv.s, k)>>

\* 'epics://a:a:a' has gone through the attribute validator
C7_Witness ==
    /\ AttrCalled
    /\ nv.s = Prefix \o <<"a", ":", "a", ":", "a">>
    /\ nv.attr_names[3] = <<"a">>

\* C8: once a lookup has returned an object that is still alive, a lookup of
\* the same kind with the same name or with the object's full name returns
\* that object, creates nothing, registers nothing and raises nothing.
C8_IdempotentLookup ==
    [][\A t \in returned :
          (/\ t[1] = last'.op
           /\ t[3] \in Live
           /\ (last'.arg = t[2] \/ last'.arg = objs[t[3]].full_name))
             => /\ last'.ret = t[3]
                /\ last'.exc = "none"
                /\ objs' = objs
                /\ nextId' = nextId
                /\ RegistriesUnchanged]_vars

\* a lookup under the full name has returned the object that an earlier
\* lookup under another name had returned
C8_Witness ==
    \E t \in returned :
        /\ t[1] = last.op
        /\ t[3] = last.ret
        /\ t[3] \in Live
        /\ t[2] # last.arg
        /\ last.arg = objs[t[3]].full_name

\* C9: a getAttribute that creates an attribute leaves the device of the
\* name registered as the attribute's parent: the device registered before
\* the call if there was one, a new one otherwise; getAttribute never raises
\* DoubleRegistration.
C9_AttributeDevice ==
    [][last'.op = "getAttribute" =>
          /\ last'.exc # "DoubleRegistration"
          /\ (last'.exc = "none" /\ last'.ret \notin Live) =>
                LET dn == getDeviceName(last'.arg)
                IN /\ dn \in DOMAIN epics_devs'
                   /\ epics_devs'[dn] = objs'[last'.ret].parent
                   /\ objs'[epics_devs'[dn]].cls = "dev"
                   /\ objs'[epics_devs'[dn]].full_name = dn
                   /\ dn \in DOMAIN epics_devs => epics_devs'[dn] = epics_devs[dn]
                   /\ dn \notin DOMAIN epics_devs => epics_devs'[dn] \notin Live]_vars

\* getAttribute has just created the second attribute of a device
C9_Witness ==
    /\ last.op = "getAttribute"
    /\ last.exc = "none"
    /\ last.ret = nextId - 1
    /\ last.ret \in LiveOf("attr")
    /\ Cardinality({y \in LiveOf("attr") : objs[y].parent = objs[last.ret].parent}) >= 2
    /\ epics_devs[getDeviceName(last.arg)] = objs[last.ret].parent

\* C10: write raises TaurusException whatever the value, the flag and the
\* state of the attribute, and changes neither the value nor the listeners
\* nor the subscription state.
C10_WriteRaises ==
    [][last'.op = "write" =>
          /\ last'.exc = "TaurusException"
          /\ objs' = objs
          /\ jobs' = jobs
          /\ RegistriesUnchanged]_vars

\* write was called on a subscribed attribute with two listeners
C10_Witness ==
    /\ last.op = "write"
    /\ last.obj \in LiveOf("attr")
    /\ objs[last.obj].subscription_state = "Subscribed"
    /\ Len(objs[last.obj].listeners) = 2

\* the listener list, the subscription state and the polling activity of
\* attribute a and the queue of jobs are as before
AttributeUntouched(a) ==
    /\ objs'[a].listeners = objs[a].listeners
    /\ objs'[a].subscription_state = objs[a].subscription_state
    /\ objs'[a].polling = objs[a].polling
    /\ jobs' = jobs

\* C11: addListener with a listener that is already registered and
\* removeListener with a listener that is not registered return False and
\* leave the listener list, the subscription state, the polling activity and
\* the scheduled jobs as they were.
C11_RedundantListenerNoOp ==
    [][/\ (last'.op = "addListener" /\ Has(objs[last'.obj].listeners, last'.arg[1]))
            => /\ last'.val = "False"
               /\ last'.exc = "none"
               /\ AttributeUntouched(last'.obj)
       /\ (last'.op = "removeListener" /\ ~Has(objs[last'.obj].listeners, last'.arg[1]))
            => /\ last'.val = "False"
               /\ last'.exc = "none"
               /\ AttributeUntouched(last'.obj)]_vars

\* a registered listener was added again to a subscribed, polled attribute
\* with two listeners, while the job queue had room
C11_Witness ==
    /\ last.op = "addListener"
    /\ last.val = "False"
    /\ Has(objs[last.obj].listeners, last.arg[1])
    /\ Len(objs[last.obj].listeners) = 2
    /\ objs[last.obj].subscription_state = "Subscribed"
    /\ objs[last.obj].polling
    /\ Len(jobs) < MaxJobs

\* C12: a removeListener that removes the last listener leaves the polling
\* of the attribute inactive; one that removes a listener while others
\* remain leaves the polling activity as it was.
C12_LastListenerStopsPolling ==
    [][(last'.op = "removeListener" /\ last'.val = "True") =>
          /\ Len(objs'[last'.obj].listeners) = Len(objs[last'.obj].listeners) - 1
          /\ Len(objs'[last'.obj].listeners) = 0 => ~objs'[last'.obj].polling
          /\ Len(objs'[last'.obj].listeners) > 0 =>
                objs'[last'.obj].polling = objs[last'.obj].polling]_vars

\* a listener was removed from a polled attribute that keeps another one
C12_Witness ==
    /\ last.op = "removeListener"
    /\ last.val = "True"
    /\ Len(objs[last.obj].listeners) = 1
    /\ ~Has(objs[last.obj].listeners, last.arg[1])
    /\ objs[last.obj].polling

\* C13: after removeAttributeFromPolling(a) no timer of polling_timers holds
\* a, whatever addAttributeToPolling calls came before; if no timer held a,
\* polling_timers and its timers are as before.
C13_RemovedFromEveryTimer ==
    [][last'.op = "removeAttributeFromPolling" =>
          /\ Holders(polling_timers', last'.obj) = {}
          /\ Holders(polling_timers, last'.obj) = {} => polling_timers' = polling_timers]_vars

====
